---- MODULE Spec2Model ----
(***************************************************************************)
(* A model of split-write's SplitWriter (src/src/lib.rs): a writer that    *)
(* partitions one logical byte stream over fixed-size segment files, each  *)
(* behind its own std::io::BufWriter<File>.                                *)
(*                                                                         *)
(* A segment handle is a record                                            *)
(*    name : the file name the naming function gave                        *)
(*    file : the bytes the file holds on disk                              *)
(*    fpos : the file's physical cursor (the OS file offset)               *)
(*    buf  : the bytes the BufWriter holds and has not written yet         *)
(* The environment's part of every call (whether File::create succeeds,    *)
(* how many bytes the file accepts) is an input of the action. The width   *)
(* of usize on the target the crate is built for is fixed at the start:    *)
(* Spec, ShortSpec and SeqSpec are 64-bit builds, NarrowSpec a 32-bit one. *)
(***************************************************************************)
EXTENDS Integers, Sequences, FiniteSets, TLC

-----------------------------------------------------------------------------
(* Bounds of the model *)

\* segment sizes 0..MaxS are tried at construction
MaxS == 2
\* at most MaxCalls calls are made on a writer
MaxCalls == 5
\* the call bound of ShortSpec
MaxShortCalls == 4
\* callers offer buffers of 0..MaxBuf bytes
MaxBuf == 2
\* seek offsets range over -MaxSeek..MaxSeek, besides the extreme values
MaxSeek == 3
\* writes are explored while the segment files hold at most MaxBytes in all
MaxBytes == 4
\* capacity of a BufWriter (8192 in std), scaled down
BufCap == 2
\* width of u64/i64, and of usize on a 64-bit target, scaled down
PosBits == 8
\* width of usize on a 32-bit target, scaled down
NarrowBits == 2

\* The writer never inspects the bytes it is given, so callers write bytes
\* that are all different: byte x of call c is Byte(c, x). 0 is what a hole
\* in a file reads as.
Byte(c, x) == 10 * c + x

-----------------------------------------------------------------------------
(* Integer types *)

U64Max == 2^PosBits - 1
I64Max == 2^(PosBits - 1) - 1
I64Min == 0 - 2^(PosBits - 1)

\* Option::None of a checked operation
None == -1

Min(a, b) == IF a <= b THEN a ELSE b
Max(a, b) == IF a >= b THEN a ELSE b

\* u64::checked_add_signed
CheckedAddSigned(a, n) == IF a + n < 0 \/ a + n > U64Max THEN None ELSE a + n

\* `as usize` of a u64 on a target whose usize is `bits` wide
AsUsize(x, bits) == x % (2^bits)

-----------------------------------------------------------------------------
(* Files and BufWriter<File> *)

\* the content of a file after `d` is written at offset `at`; a gap between
\* the old end and `at` reads as zeros
Overlay(f, at, d) ==
    IF Len(d) = 0 THEN f
    ELSE [x \in 1..Max(Len(f), at + Len(d)) |->
            IF x > at /\ x <= at + Len(d) THEN d[x - at]
            ELSE IF x <= Len(f) THEN f[x] ELSE 0]

\* what the file holds once the handle's buffer is written through
Disk(w) == Overlay(w.file, w.fpos, w.buf)

\* File::create(dest_dir.join(name)) wrapped in BufWriter::new
NewWriter(name) == [name |-> name, file |-> <<>>, fpos |-> 0, buf |-> <<>>]

\* File::write of the first m bytes of d at the physical cursor
FileWrite(w, d, m) ==
    [w EXCEPT !.file = Overlay(w.file, w.fpos, SubSeq(d, 1, m)),
              !.fpos = w.fpos + m]

\* BufWriter::flush_buf: the file takes k bytes of the buffer before it
\* fails (k >= Len(buf): no failure); written bytes leave the buffer
FlushBuf(w, k) ==
    LET m == Min(k, Len(w.buf))
    IN  [ok |-> k >= Len(w.buf),
         w  |-> [FileWrite(w, w.buf, m) EXCEPT
                    !.buf = SubSeq(w.buf, m + 1, Len(w.buf))]]

\* BufWriter::write(d): small writes are buffered, a write of at least the
\* capacity goes to the file, which accepts acc bytes (acc < 0: an error)
BufWrite(w, d, k, acc) ==
    LET spare == BufCap - Len(w.buf)
        put(h) == [h EXCEPT !.buf = h.buf \o d]
    IN  IF Len(d) < spare
        THEN [ok |-> TRUE, n |-> Len(d), w |-> put(w), short |-> FALSE]
        ELSE LET fl == IF Len(d) > spare THEN FlushBuf(w, k)
                       ELSE [ok |-> TRUE, w |-> w]
             IN  IF ~fl.ok
                 THEN [ok |-> FALSE, n |-> 0, w |-> fl.w, short |-> FALSE]
                 ELSE IF Len(d) >= BufCap
                 THEN IF acc < 0
                      THEN [ok |-> FALSE, n |-> 0, w |-> fl.w, short |-> FALSE]
                      ELSE [ok |-> TRUE, n |-> Min(acc, Len(d)),
                            w |-> FileWrite(fl.w, d, Min(acc, Len(d))),
                            short |-> acc < Len(d)]
                 ELSE [ok |-> TRUE, n |-> Len(d), w |-> put(fl.w),
                       short |-> FALSE]

\* BufSeek that writes the buffer through and leaves the cursor where it is
BufSeekNoMove(w, o, k) ==
    LET fl == FlushBuf(w, k)
    IN  [ok |-> fl.ok, w |-> fl.w]

\* BufWriter::seek(SeekFrom::Start(o)): flush_buf, then move the cursor
BufSeek(w, o, k) ==
    LET fl == FlushBuf(w, k)
    IN  IF fl.ok THEN [ok |-> TRUE, w |-> [fl.w EXCEPT !.fpos = o]]
        ELSE [ok |-> FALSE, w |-> fl.w]

-----------------------------------------------------------------------------
(* SplitWriter *)

VARIABLES
    status,       \* "none": not constructed, "ok", "panicked"
    split_size,
    current_pos,
    writers,      \* the registry: Seq of handles, segment i at position i+1
    ret,          \* the last call and what it returned
    hist,         \* the calls so far, see Hist
    stream,       \* the bytes accepted so far, while no seek was called
    chain,        \* the cursor was set by construction or an in-range seek
                  \* that succeeded, and only moved by writes since
    ncalls,       \* the number of calls made on the writer
    usize_bits    \* the width of usize on the target the crate is built for

vars == <<status, split_size, current_pos, writers, ret, hist, stream, chain,
          ncalls, usize_bits>>

\* the naming function of main.rs: "<stem>.part<n>.<ext>"
GetFileName(n) == <<"part", n>>

\* SegIndex with the quotient rounded up instead of down
SegIndexCeil(pos, size) == AsUsize((pos + size - 1) \div size, usize_bits)

\* the segment a position falls into
SegIndex(pos, size) == AsUsize(pos \div size, usize_bits)

\* the offset of a position inside its segment
FileOffset(pos, size) == pos % size

\* NToWrite without the cap at the room left in the segment
NToWriteUncapped(len, remaining) == len

\* the number of bytes write offers to the segment's handle
NToWrite(len, remaining) == Min(len, AsUsize(remaining, usize_bits))

\* Slice taking the last n bytes of the buffer instead of the first
SliceTail(buf, n) == SubSeq(buf, Len(buf) - n + 1, Len(buf))

\* &buf[..n_to_write]
Slice(buf, n) == SubSeq(buf, 1, n)

\* Advance by the bytes offered, before the handle's result is looked at
AdvanceOffered(pos, ok, n_to_write, n_written) == pos + n_to_write

\* `let n_written = writer.write(..)?; self.current_pos += n_written as u64`
Advance(pos, ok, n_to_write, n_written) == IF ok THEN pos + n_written ELSE pos

\* the value total_len() computes from the registry
TotalLenValue(ws, size) ==
    IF Len(ws) = 0 THEN 0
    ELSE (Len(ws) - 1) * size + Len(Disk(ws[Len(ws)]))

\* total_len(): flushes the last handle, then reads its file's length
TotalLenCall(ws, size, k) ==
    IF Len(ws) = 0 THEN [ok |-> TRUE, val |-> 0, ws |-> ws]
    ELSE LET fl == FlushBuf(ws[Len(ws)], k)
             ws1 == [ws EXCEPT ![Len(ws)] = fl.w]
         IN  IF fl.ok
             THEN [ok |-> TRUE, ws |-> ws1,
                   val |-> (Len(ws) - 1) * size + Len(fl.w.file)]
             ELSE [ok |-> FALSE, val |-> 0, ws |-> ws1]

Ret(op, ok, io, val, len, short, data, p) ==
    [op |-> op, ok |-> ok, io |-> io, val |-> val, len |-> len,
     short |-> short, data |-> data, p |-> p, again |-> FALSE]

\* What the calls made so far were:
\*   "seq"   no seek, and every write had a non-empty buffer and returned
\*           Ok(n) with n >= 1
\*   "seqf"  no seek, every write had a non-empty buffer, and some write
\*           returned an error or Ok(0)
\*   "seqz"  no seek, and some write had an empty buffer
\*   "any"   some seek was called
Hist(h, len, ok, n) ==
    IF h = "any" THEN "any"
    ELSE IF len = 0 \/ h = "seqz" THEN "seqz"
    ELSE IF ok /\ n >= 1 THEN h
    ELSE "seqf"

RECURSIVE SumLen(_)
SumLen(ws) == IF Len(ws) = 0 THEN 0
              ELSE Len(Disk(Head(ws))) + SumLen(Tail(ws))

\* the buffers the next call may offer
Bufs == {[x \in 1..n |-> Byte(ncalls + 1, x)] : n \in 0..MaxBuf}

\* before SplitWriter::new is called, in a build for a target whose usize
\* is `bits` wide
InitOn(bits) ==
    /\ status = "none"
    /\ split_size = 0
    /\ current_pos = 0
    /\ writers = <<>>
    /\ ret = Ret("init", TRUE, FALSE, 0, 0, FALSE, <<>>, None)
    /\ hist = "seq"
    /\ stream = <<>>
    /\ chain = TRUE
    /\ ncalls = 0
    /\ usize_bits = bits

\* a 64-bit target
Init == InitOn(PosBits)

\* a 32-bit target
InitNarrow == InitOn(NarrowBits)

\* SplitWriter::new(dest_dir, get_file_name, size)
New(size, createOk) ==
    /\ status = "none"
    /\ IF createOk
       THEN /\ status' = "ok"
            /\ split_size' = size
            /\ writers' = <<NewWriter(GetFileName(0))>>
            /\ ret' = Ret("new", TRUE, FALSE, 0, 0, FALSE, <<>>, None)
       ELSE /\ ret' = Ret("new", FALSE, TRUE, 0, 0, FALSE, <<>>, None)
            /\ UNCHANGED <<status, split_size, writers>>
    /\ UNCHANGED <<current_pos, hist, stream, chain, ncalls, usize_bits>>

\* Write::write(buf). createOk: File::create succeeds; k, acc: what the
\* segment's file accepts (see FlushBuf, BufWrite)
Write(buf, createOk, k, acc) ==
    /\ status = "ok"
    /\ ncalls < MaxCalls
    /\ ncalls' = ncalls + 1
    /\ UNCHANGED usize_bits
    /\ IF split_size = 0
       THEN \* current_pos % split_size: division by zero panics
            /\ status' = "panicked"
            /\ ret' = Ret("write", FALSE, FALSE, 0, Len(buf), FALSE, <<>>, None)
            /\ UNCHANGED <<split_size, current_pos, writers, hist, stream, chain>>
       ELSE
       LET file_offset == FileOffset(current_pos, split_size)
           remaining_in_file == split_size - file_offset
           i == SegIndex(current_pos, split_size)
           create == i >= Len(writers)
           ws1 == IF create THEN Append(writers, NewWriter(GetFileName(i)))
                  ELSE writers
       IN  IF create /\ ~createOk
           THEN \* File::create(file_path)? returns the error
                /\ ret' = Ret("write", FALSE, TRUE, 0, Len(buf), FALSE, <<>>, None)
                /\ hist' = Hist(hist, Len(buf), FALSE, 0)
                /\ UNCHANGED <<status, split_size, current_pos, writers,
                               stream, chain>>
           ELSE IF i >= Len(ws1)
           THEN \* &mut self.writers[i]: index out of bounds panics
                /\ status' = "panicked"
                /\ writers' = ws1
                /\ ret' = Ret("write", FALSE, FALSE, 0, Len(buf), FALSE, <<>>, None)
                /\ UNCHANGED <<split_size, current_pos, hist, stream, chain>>
           ELSE
           LET n_to_write == NToWrite(Len(buf), remaining_in_file)
               r == BufWrite(ws1[i + 1], Slice(buf, n_to_write), k, acc)
               taken == SubSeq(buf, 1, r.n)
               h == Hist(hist, Len(buf), r.ok, r.n)
           IN  /\ writers' = [ws1 EXCEPT ![i + 1] = r.w]
               /\ SumLen(writers') <= MaxBytes
               /\ current_pos' = Advance(current_pos, r.ok, n_to_write, r.n)
               /\ ret' = Ret("write", r.ok, ~r.ok, r.n, Len(buf), r.short,
                             taken, None)
               /\ hist' = h
               /\ stream' = IF h = "any" THEN <<>> ELSE stream \o taken
               /\ UNCHANGED <<status, split_size, chain>>

\* FlushAll that leaves out the last handle of the registry
FlushAllSkipLast(ws, j, k) ==
    LET fails == j > 0 /\ j < Len(ws) /\ ~FlushBuf(ws[j], k).ok
        last == IF fails THEN j ELSE Len(ws) - 1
    IN  [ok |-> ~fails,
         ws |-> [x \in 1..Len(ws) |->
                    IF x > last THEN ws[x]
                    ELSE IF x = j THEN FlushBuf(ws[x], k).w
                    ELSE FlushBuf(ws[x], BufCap).w]]

\* FlushAll that goes on to the handles after the one that failed
FlushAllKeepGoing(ws, j, k) ==
    LET fails == j > 0 /\ ~FlushBuf(ws[j], k).ok
    IN  [ok |-> ~fails,
         ws |-> [x \in 1..Len(ws) |->
                    IF x = j THEN FlushBuf(ws[x], k).w
                    ELSE FlushBuf(ws[x], BufCap).w]]

\* `for w in &mut self.writers { w.flush()?; }`: every handle in registry
\* order, stopping at the first error. The file of handle j (0: none) is the
\* one that may fail, after taking k bytes
FlushAll(ws, j, k) ==
    LET fails == j > 0 /\ ~FlushBuf(ws[j], k).ok
        last == IF fails THEN j ELSE Len(ws)
    IN  [ok |-> ~fails,
         ws |-> [x \in 1..Len(ws) |->
                    IF x > last THEN ws[x]
                    ELSE IF x = j THEN FlushBuf(ws[x], k).w
                    ELSE FlushBuf(ws[x], BufCap).w]]

\* Write::flush(). ret.again: the call before this one was a flush that
\* returned Ok
Flush(j, k) ==
    /\ status = "ok"
    /\ ncalls < MaxCalls
    /\ ncalls' = ncalls + 1
    /\ j \in 0..Len(writers)
    /\ LET f == FlushAll(writers, j, k)
       IN  /\ writers' = f.ws
           /\ ret' = [Ret("flush", f.ok, ~f.ok, 0, 0, FALSE, <<>>, None)
                        EXCEPT !.again = ret.op = "flush" /\ ret.ok]
    /\ UNCHANGED <<status, split_size, current_pos, hist, stream, chain,
                   usize_bits>>

\* SplitWriter::total_len()
TotalLen(k) ==
    /\ status = "ok"
    /\ ncalls < MaxCalls
    /\ ncalls' = ncalls + 1
    /\ LET t == TotalLenCall(writers, split_size, k)
       IN  /\ writers' = t.ws
           /\ ret' = Ret("total_len", t.ok, ~t.ok, t.val, 0, FALSE, <<>>, None)
    /\ UNCHANGED <<status, split_size, current_pos, hist, stream, chain,
                   usize_bits>>

\* the outcome of seek's `match pos`: the new position, or an early return
\* with an error; ws is the registry after total_len()'s flush
SeekResolve(origin, n, pos, ws, size, k) ==
    CASE origin = "Start" ->
            [ok |-> TRUE, io |-> FALSE, pos |-> n, p |-> n, ws |-> ws]
      [] origin = "End" ->
            IF n > 0
            THEN [ok |-> FALSE, io |-> FALSE, pos |-> pos, p |-> None, ws |-> ws]
            ELSE LET t == TotalLenCall(ws, size, k)
                     np == CheckedAddSigned(t.val, n)
                 IN  IF ~t.ok
                     THEN [ok |-> FALSE, io |-> TRUE, pos |-> pos, p |-> None,
                           ws |-> t.ws]
                     ELSE IF np = None
                     THEN [ok |-> FALSE, io |-> FALSE, pos |-> pos, p |-> None,
                           ws |-> t.ws]
                     ELSE [ok |-> TRUE, io |-> FALSE, pos |-> np, p |-> np,
                           ws |-> t.ws]
      [] origin = "Current" ->
            LET np == CheckedAddSigned(pos, n)
                t == TotalLenCall(ws, size, k)
            IN  IF np = None
                THEN [ok |-> FALSE, io |-> FALSE, pos |-> pos, p |-> None, ws |-> ws]
                ELSE IF ~t.ok
                THEN [ok |-> FALSE, io |-> TRUE, pos |-> pos, p |-> np, ws |-> t.ws]
                ELSE IF np > t.val
                THEN [ok |-> FALSE, io |-> FALSE, pos |-> pos, p |-> np, ws |-> t.ws]
                ELSE [ok |-> TRUE, io |-> FALSE, pos |-> np, p |-> np, ws |-> t.ws]

\* seek once `match pos` has given m: the assignment to current_pos, the
\* registry lookup and the handle's seek. pos, ws: the fields after the
\* call; inRange: the call returned Ok and its position is not beyond
\* total_len
SeekTo(m, pos, size, k) ==
    IF ~m.ok
        THEN [ok |-> FALSE, io |-> m.io, panic |-> FALSE, pos |-> pos,
              ws |-> m.ws, p |-> m.p, inRange |-> FALSE]
        ELSE IF size = 0
        THEN \* current_pos is assigned, then current_pos / split_size panics
             [ok |-> FALSE, io |-> FALSE, panic |-> TRUE, pos |-> m.pos,
              ws |-> m.ws, p |-> m.p, inRange |-> FALSE]
        ELSE
        LET i == SegIndex(m.pos, size)
            s == IF i < Len(m.ws)
                 THEN BufSeek(m.ws[i + 1], FileOffset(m.pos, size), k)
                 ELSE [ok |-> FALSE, w |-> <<>>]
        IN  [ok |-> s.ok, io |-> i < Len(m.ws) /\ ~s.ok, panic |-> FALSE,
             pos |-> m.pos,
             ws |-> IF i < Len(m.ws) THEN [m.ws EXCEPT ![i + 1] = s.w]
                    ELSE m.ws,
             p |-> m.p,
             inRange |-> s.ok /\ m.pos <= TotalLenValue(m.ws, size)]

\* Seek::seek(pos) as a function of the writer's fields. k: what a file
\* accepts in the call's flushes (that of total_len() and that of
\* BufWriter::seek)
SeekCall(origin, n, pos, ws, size, k) ==
    SeekTo(SeekResolve(origin, n, pos, ws, size, k), pos, size, k)

\* Seek::seek(pos)
Seek(origin, n, k) ==
    /\ status = "ok"
    /\ ncalls < MaxCalls
    /\ ncalls' = ncalls + 1
    /\ \E c \in {SeekCall(origin, n, current_pos, writers, split_size, k)} :
           /\ status' = IF c.panic THEN "panicked" ELSE status
           /\ current_pos' = c.pos
           /\ writers' = c.ws
           /\ ret' = Ret("seek", c.ok, c.io, IF c.ok THEN c.pos ELSE 0, 0,
                         FALSE, <<>>, c.p)
           /\ chain' = c.inRange
    /\ hist' = "any"
    /\ stream' = <<>>
    /\ UNCHANGED <<split_size, usize_bits>>

SeekArgs(origin) ==
    IF origin = "Start" THEN 0..MaxSeek \cup {U64Max}
    ELSE (0 - MaxSeek)..MaxSeek \cup {I64Min, I64Max}

-----------------------------------------------------------------------------
(* What the segment files hold *)

\* the content of segment j's file (j counted from 0) once every buffer is
\* written through; empty when the segment does not exist
DiskAt(ws, j) == IF j < Len(ws) THEN Disk(ws[j + 1]) ELSE <<>>

\* the segment files concatenated in index order
RECURSIVE ConcatDisks(_)
ConcatDisks(ws) == IF Len(ws) = 0 THEN <<>>
                   ELSE Disk(Head(ws)) \o ConcatDisks(Tail(ws))

\* ceil(a / b)
CeilDiv(a, b) == (a + b - 1) \div b

\* the step is a call of `op` on the writer
Called(op) == ncalls' = ncalls + 1 /\ ret'.op = op

\* the inputs of the environment that a call can tell apart: a flush fails
\* only where a buffer holds more than the file accepts, a file accepts or
\* refuses bytes only where a write reaches it
FlushInputs == {k \in 0..BufCap : k = BufCap \/ \E x \in 1..Len(writers) :
                                                  k < Len(writers[x].buf)}
AcceptInputs(buf) == IF Len(buf) >= BufCap THEN -1..Len(buf) ELSE {Len(buf)}
CreateInputs == IF split_size > 0 /\ SegIndex(current_pos, split_size) >= Len(writers)
                THEN BOOLEAN ELSE {TRUE}

\* the calls a caller can make, with the inputs it and the environment choose
DoNew == \E size \in 0..MaxS, createOk \in BOOLEAN : New(size, createOk)

DoWrite ==
    \E buf \in Bufs, createOk \in CreateInputs, k \in FlushInputs :
       \E acc \in AcceptInputs(buf) : Write(buf, createOk, k, acc)

DoFlush ==
    \E j \in 0..Len(writers), k \in FlushInputs :
       (j = 0 <=> k = BufCap) /\ Flush(j, k)

DoTotalLen == \E k \in FlushInputs : TotalLen(k)

DoSeek ==
    \E origin \in {"Start", "End", "Current"}, k \in FlushInputs :
       \E n \in SeekArgs(origin) : Seek(origin, n, k)

Next ==
    \/ DoNew
    \/ DoWrite
    \/ DoFlush
    \/ DoTotalLen
    \/ DoSeek

Spec == Init /\ [][Next]_vars

\* the same calls, at most MaxShortCalls of them
ShortNext ==
    \/ ncalls < MaxShortCalls /\ DoNew
    \/ ncalls < MaxShortCalls /\ DoWrite
    \/ ncalls < MaxShortCalls /\ DoFlush
    \/ ncalls < MaxShortCalls /\ DoTotalLen
    \/ ncalls < MaxShortCalls /\ DoSeek

ShortSpec == Init /\ [][ShortNext]_vars

\* writers on which seek is never called
SeqNext ==
    \/ DoNew
    \/ DoWrite
    \/ DoFlush
    \/ DoTotalLen

SeqSpec == Init /\ [][SeqNext]_vars

\* segment sizes that do not fit the usize of a 32-bit target
DoNewLarge ==
    \E size \in {2^NarrowBits, 2^NarrowBits + 1}, createOk \in BOOLEAN :
       New(size, createOk)

\* writers with such a segment size in a build for a 32-bit target
NarrowNext ==
    \/ DoNewLarge
    \/ ncalls < MaxShortCalls /\ DoWrite
    \/ ncalls < MaxShortCalls /\ DoFlush
    \/ ncalls < MaxShortCalls /\ DoTotalLen
    \/ ncalls < MaxShortCalls /\ DoSeek

NarrowSpec == InitNarrow /\ [][NarrowNext]_vars

-----------------------------------------------------------------------------
(* Claims. A segment file's content is read as Disk: what the file holds     *)
(* once the handle's buffer is written through.                              *)

\* C1: on a writer with S > 0 on which no seek was called, the segment
\* files concatenated in index order are exactly the bytes the write calls
\* accepted, in the order they were accepted.
RoundTrip ==
    (split_size > 0 /\ hist # "any") => ConcatDisks(writers) = stream

\* C1 witness: a write cut short at a segment boundary, with more than one
\* segment's worth of bytes accepted over two segments.
RoundTripWitness ==
    /\ split_size > 0 /\ hist # "any"
    /\ Len(writers) >= 2
    /\ Len(stream) > split_size
    /\ ret.op = "write" /\ ret.ok /\ ret.val >= 1 /\ ret.val < ret.len

\* C2: a write call made while the cursor was put where it is by an
\* in-range seek (or by construction) and moved by writes only changes the
\* logical bytes [p, p + n) and nothing else: the n accepted bytes land in
\* segment p div S from offset p mod S on, every other byte of every
\* segment file is as before.
SeekThenWrite ==
    [][(Called("write") /\ ret'.ok /\ chain /\ status' = "ok")
        => LET i == current_pos \div split_size
               o == current_pos % split_size
           IN  \A j \in 0..Len(writers') :
                  DiskAt(writers', j) =
                     IF j = i THEN Overlay(DiskAt(writers, j), o, ret'.data)
                     ELSE DiskAt(writers, j)]_vars

\* C3: no writer with segment size 0 exists: construction with size 0 fails
\* and creates no file.
NoZeroSizeWriter ==
    split_size = 0 => (status = "none" /\ writers = <<>>)

\* C4 (I3): after every call on a writer with S > 0 the cursor is at most
\* the length total_len() reports.
CursorWithinLength ==
    (status = "ok" /\ split_size > 0)
        => current_pos <= TotalLenValue(writers, split_size)

\* C5: a seek whose resolved position p is in 0..total_len, and in which no
\* file operation fails, succeeds, returns p and leaves the cursor at p.
InRangeSeekSucceeds ==
    (ret.op = "seek" /\ split_size > 0 /\ ~ret.io /\ ret.p # None
        /\ ret.p <= TotalLenValue(writers, split_size))
        => (ret.ok /\ ret.val = ret.p /\ current_pos = ret.p)

\* C6: a write call that returns Ok(n) at offset o of its segment, given
\* len bytes, has n <= min(len, S - o), moves the cursor by exactly n and so
\* not past the end of the segment; when len > S - o and the handle took all
\* it was offered, n = S - o.
PartialWrite ==
    [][(Called("write") /\ ret'.ok /\ status' = "ok")
        => LET o == current_pos % split_size
           IN  /\ ret'.val <= Min(ret'.len, split_size - o)
               /\ current_pos' = current_pos + ret'.val
               /\ current_pos' <= (current_pos - o) + split_size
               /\ (ret'.len > split_size - o /\ ~ret'.short)
                     => (ret'.val = split_size - o /\ ret'.val < ret'.len)]_vars

\* C6 witness: a write was offered more than the segment had room for, the
\* handle took all it was given, and the call returned fewer bytes than the
\* buffer held.
PartialWriteWitness ==
    /\ status = "ok" /\ ret.op = "write" /\ ret.ok /\ ~ret.short
    /\ ret.val >= 1 /\ ret.val < ret.len
    /\ current_pos % split_size = 0

SegmentCapacity ==
    split_size > 0
        => \A j \in 0..(Len(writers) - 1) :
              Len(DiskAt(writers, j)) <= split_size

\* C9 (I2): the handle at registry position i is the file the naming
\* function gave for index i: segments are created in index order, none
\* skipped.
CreationOrder ==
    \A j \in 0..(Len(writers) - 1) : writers[j + 1].name = GetFileName(j)

\* C10: a write call with an empty buffer, in which no file operation fails,
\* returns Ok(0) and changes neither the cursor, nor the registry, nor any
\* file.
EmptyWriteNoEffect ==
    [][(Called("write") /\ ret'.len = 0 /\ split_size > 0 /\ ~ret'.io)
        => /\ ret'.ok /\ ret'.val = 0
           /\ status' = status
           /\ current_pos' = current_pos
           /\ writers' = writers]_vars

\* C11: the length total_len() derives from the registry,
\* (segment_count - 1) * S + length of the last file, equals in every
\* reachable state the high-water mark H kept incrementally: H is 0 on a
\* fresh writer and becomes max(H, current_pos) after every write call that
\* accepts bytes, and no other call changes it. The two agree in every state
\* exactly when the derived length is 0 on a fresh writer and every step
\* changes it the way it changes H.
DerivedLenIsHighWater ==
    [][(status' = "ok" /\ split_size' > 0)
        => LET T == TotalLenValue(writers, split_size)
               T1 == TotalLenValue(writers', split_size')
           IN  T1 = IF Called("write") /\ ret'.ok /\ ret'.val >= 1
                    THEN Max(T, current_pos')
                    ELSE T]_vars

\* C12: after a flush that returned Ok no handle holds buffered bytes; and
\* a flush called right after a flush that returned Ok returns Ok too and
\* changes nothing: the cursor, the registry, and every handle's file,
\* physical cursor and buffer are as the first flush left them.
FlushIdempotent ==
    [][Called("flush")
        => /\ ret'.ok => \A x \in 1..Len(writers') : writers'[x].buf = <<>>
           /\ (ret.op = "flush" /\ ret.ok)
                => /\ ret'.ok
                   /\ status' = status
                   /\ current_pos' = current_pos
                   /\ writers' = writers]_vars

\* C12 witness: a second flush in a row returned Ok, on a writer whose
\* files hold bytes in two segments.
FlushIdempotentWitness ==
    /\ ret.op = "flush" /\ ret.ok /\ ret.again
    /\ Len(writers) >= 2
    /\ \A x \in 1..Len(writers) : writers[x].file # <<>>

\* the number of bytes of call c that the segment handles hold
Stamped(ws, c) ==
    Cardinality({jx \in (1..Len(ws)) \X (1..SumLen(ws)) :
                    /\ jx[2] <= Len(Disk(ws[jx[1]]))
                    /\ \E x \in 1..MaxBuf : Disk(ws[jx[1]])[jx[2]] = Byte(c, x)})

\* C13: a write call that returns an error (or panics) leaves current_pos
\* as it was, and no write call advances current_pos by more than the
\* number of its bytes the segment's handle took.
WriteErrorKeepsCursor ==
    [][Called("write")
        => /\ ~ret'.ok => current_pos' = current_pos
           /\ current_pos' >= current_pos
           /\ current_pos' - current_pos <= Stamped(writers', ncalls')]_vars

\* C13 witness: a write with a non-empty buffer returned an I/O error
\* from the handle of a segment the call had created, after bytes had been
\* accepted.
WriteErrorKeepsCursorWitness ==
    /\ status = "ok" /\ ret.op = "write" /\ ~ret.ok /\ ret.io /\ ret.len > 0
    /\ current_pos > 0
    /\ Len(writers) >= 2 /\ DiskAt(writers, Len(writers) - 1) = <<>>

\* the physical offset the next byte written through the handle goes to
Cursor(w) == w.fpos + Len(w.buf)

\* C14: a seek that returns Ok(p) leaves the handle of segment p div S with
\* its physical cursor at p mod S and leaves every other handle's cursor and
\* every file's content as they were; a write that follows it at once and
\* accepts bytes puts its first byte at offset p mod S of segment p div S
\* and changes no other segment.
SeekPositionsHandle ==
    [][/\ (Called("seek") /\ ret'.ok /\ status' = "ok")
            => LET i == current_pos' \div split_size
                   o == current_pos' % split_size
               IN  /\ ret'.val = current_pos'
                   /\ Len(writers') = Len(writers)
                   /\ i < Len(writers')
                   /\ Cursor(writers'[i + 1]) = o
                   /\ \A x \in 1..Len(writers) :
                         /\ x # i + 1 => Cursor(writers'[x]) = Cursor(writers[x])
                         /\ Disk(writers'[x]) = Disk(writers[x])
       /\ (Called("write") /\ ret.op = "seek" /\ ret.ok
                           /\ ret'.ok /\ ret'.val >= 1 /\ status' = "ok")
            => LET i == current_pos \div split_size
                   o == current_pos % split_size
               IN  /\ Len(writers') = Len(writers)
                   /\ SubSeq(DiskAt(writers', i), o + 1, o + ret'.val) = ret'.data
                   /\ \A x \in 0..(Len(writers) - 1) :
                         x # i => DiskAt(writers', x) = DiskAt(writers, x)]_vars

\* C14 witness: the first call wrote bytes, the second was a seek that
\* returned Ok(p) with p >= 1, and the third, a write, put its bytes behind
\* the first byte of the first call in segment 0.
SeekPositionsHandleWitness ==
    /\ status = "ok" /\ ncalls = 3 /\ hist = "any" /\ chain
    /\ ret.op = "write" /\ ret.ok /\ ret.val >= 1
    /\ current_pos - ret.val >= 1
    /\ Len(DiskAt(writers, 0)) >= 2
    /\ DiskAt(writers, 0)[1] = Byte(1, 1)
    /\ DiskAt(writers, 0)[2] = Byte(3, 1)

\* C15: every segment other than the last holds exactly S bytes, in every
\* reachable state, whatever calls failed before.
SegmentFullness ==
    (status = "ok" /\ split_size > 0)
        => \A j \in 0..(Len(writers) - 2) :
              Len(DiskAt(writers, j)) = split_size

\* C16: flush goes through the handles in registry order and stops at the
\* first failure: when it returns an error, some handle j still holds
\* buffered bytes, every handle before j has been written through and
\* every handle after j is as it was; when it returns Ok every handle has
\* been written through. flush changes neither current_pos nor the
\* registry's length and files' names and contents.
FlushFailFast ==
    [][Called("flush")
        => /\ status' = status /\ split_size' = split_size
           /\ current_pos' = current_pos
           /\ Len(writers') = Len(writers)
           /\ \A x \in 1..Len(writers) :
                 /\ writers'[x].name = writers[x].name
                 /\ Disk(writers'[x]) = Disk(writers[x])
           /\ ret'.ok => \A x \in 1..Len(writers) : writers'[x].buf = <<>>
           /\ ~ret'.ok
                => \E j \in 1..Len(writers) :
                      /\ writers'[j].buf # <<>>
                      /\ \A x \in 1..(j - 1) : writers'[x].buf = <<>>
                      /\ \A x \in (j + 1)..Len(writers) :
                            writers'[x] = writers[x]]_vars

\* C16 witness: a flush failed on the second of three handles that held
\* buffered bytes: the first is written through, the second and the third
\* still hold theirs.
FlushFailFastWitness ==
    /\ ret.op = "flush" /\ ~ret.ok
    /\ Len(writers) = 3
    /\ writers[1].buf = <<>> /\ writers[1].file # <<>>
    /\ writers[2].buf # <<>>
    /\ writers[3].buf # <<>>

\* C17: where the room left in the segment, S - o, does not fit usize, a
\* write call either returns an error or offers the handle the whole buffer
\* (the cap at the platform maximum is no cap for a buffer, whose length
\* fits usize): a call that returns Ok, and whose handle took all it was
\* offered, accepted min(len, S - o) bytes, never fewer.
NoSilentTruncation ==
    [][(/\ Called("write") /\ status' = "ok" /\ split_size > 0
        /\ ret'.ok /\ ~ret'.short)
        => ret'.val = Min(ret'.len,
                          split_size - FileOffset(current_pos, split_size))]_vars

\* C18: a seek call that returns an error for its arguments (a positive
\* offset from the end, an overflow or underflow, a position beyond
\* total_len, a segment that is not in the registry) leaves the writer as
\* it was: current_pos, the registry, and every handle's physical cursor.
FailedSeekNoEffect ==
    [][(Called("seek") /\ ~ret'.ok /\ ~ret'.io /\ status' = "ok")
        => /\ current_pos' = current_pos
           /\ Len(writers') = Len(writers)
           /\ \A x \in 1..Len(writers) :
                 /\ writers'[x].name = writers[x].name
                 /\ Cursor(writers'[x]) = Cursor(writers[x])]_vars

\* C19: in every state of a writer, and for every target p whose offsets
\* from the cursor and from the end fit i64, seek(Start(p)),
\* seek(Current(p - current_pos)) and seek(End(p - total_len)), with no
\* file operation failing, have the same outcome: all three return Ok(p)
\* and leave current_pos = p, or all three return an error.
SeekOriginsAgree ==
    (status = "ok" /\ split_size > 0)
        => \A p \in 0..MaxSeek :
              \A dc \in {p - current_pos} \cap (I64Min..I64Max),
                 de \in {p - TotalLenValue(writers, split_size)}
                           \cap (I64Min..I64Max) :
                 \A a \in {SeekCall("Start", p, current_pos, writers,
                                    split_size, BufCap)},
                    b \in {SeekCall("Current", dc, current_pos, writers,
                                    split_size, BufCap)},
                    c \in {SeekCall("End", de, current_pos, writers,
                                    split_size, BufCap)} :
                    /\ a.ok = b.ok /\ b.ok = c.ok
                    /\ a.ok => (a.pos = p /\ b.pos = p /\ c.pos = p)

\* C20: on a writer with S > 0, a write call with a non-empty buffer, in
\* which no file operation fails and the file takes at least one byte of
\* what it is handed, returns Ok(n) with n >= 1.
WriteProgress ==
    [][(/\ Called("write") /\ split_size > 0 /\ ret'.len > 0
        /\ ~ret'.io /\ ~(ret'.short /\ ret'.val = 0))
        => ret'.ok /\ ret'.val >= 1]_vars

====
